---- MODULE Spec2Model ----
(***************************************************************************)
(* A model of tb_study_app.py: the participant record kept in the session  *)
(* state, the pathway timing engine (validate_dates, calculate_delays),    *)
(* the section renders that call it, and the navigation / reset handlers   *)
(* of main().                                                              *)
(*                                                                         *)
(* A calendar date is modelled by its day ordinal, wrapped in a one-element *)
(* sequence <<d>>; None is the empty sequence.  (b - a).days is d_b - d_a   *)
(* and a > b is d_a > d_b.  The record's float default 0.0 and the integer  *)
(* 0 are the same number (0.0 == 0 in Python).                              *)
(*                                                                         *)
(* One action is one run of the script caused by one operator event,       *)
(* including the rerun that st.rerun() starts.                             *)
(***************************************************************************)
EXTENDS Integers, Sequences, FiniteSets, TLC

VARIABLES
  participant_data,   \* st.session_state.participant_data
  current_section,    \* st.session_state.current_section
  radio,              \* the kept state of the DHLI radio widgets, if on the page
  ui,                 \* per run of the last step: what it showed, the engine calls it made
  stores              \* dates stored by a direct caller of the engine

vars == <<participant_data, current_section, radio, ui, stores>>

-----------------------------------------------------------------------------
(* Bounds and program constants *)

\* Largest day ordinal the operator can pick in the pathway section.
MaxDay == 2

\* Largest day ordinal a direct caller of the engine stores.
MaxEngineDay == 3

\* Dates a direct caller of the engine stores after the initial four.
MaxStores == 2
\* How far outside the options of a radio a raw answer handed to the scoring
\* lines may lie, and how many answers are handed to them.
MaxExcess == 1
MaxResponses == 2

\* range(1, 11): the ten DHLI items.
NumItems == 10

\* len(sections)
NumSections == 5

\* dhli_questions: the items that carry 'reverse_score': True.
reverse_score == {9}

None == <<>>

\* The widget's choices: a date, or None while nothing is selected.
DateOrNone == {None} \cup {<<d>> : d \in 0..MaxDay}

EngineDateOrNone == {None} \cup {<<d>> : d \in 0..MaxEngineDay}

\* Python truthiness of a stored date: a date object is truthy, None is not.
Truthy(x) == x # None

Ord(x) == x[1]

date_names == <<"Symptom Onset", "First Visit", "Diagnosis", "Treatment Start">>

-----------------------------------------------------------------------------
(* initialize_session_state *)

DefaultRecord ==
  [ Participant_ID |-> "",
    Age |-> 0,
    Gender |-> "",
    TB_Type |-> "",
    Date_Symptom_Onset |-> None,
    Date_First_Visit |-> None,
    Date_Diagnosis |-> None,
    Date_Treatment_Start |-> None,
    Patient_Delay |-> 0,
    Healthcare_Provider_Related_Delay |-> 0,
    Treatment_Delay |-> 0,
    Total_Delay |-> 0,
    TB_Unit_TU |-> 0,
    Healthcare_Providers |-> 0,
    No_Delay |-> FALSE,
    DHLI_Q |-> [q \in 1..NumItems |-> 0],
    DHLI_Total_Score |-> 0,
    Data_Verified |-> FALSE ]

\* The defaults stored on every run, whether or not the keys are present.
InitializeSessionState_Always(keys, data, section) ==
  [data |-> DefaultRecord, section |-> section]

\* keys: the keys present in st.session_state; data, section: their values.
InitializeSessionState(keys, data, section) ==
  [ data |-> IF "participant_data" \in keys THEN data ELSE DefaultRecord,
    section |-> IF "current_section" \in keys THEN section ELSE 0 ]

-----------------------------------------------------------------------------
(* The pathway timing engine *)

DatesOf(data) ==
  << data.Date_Symptom_Onset, data.Date_First_Visit,
     data.Date_Diagnosis, data.Date_Treatment_Start >>

AllDates(data) ==
  /\ Truthy(data.Date_Symptom_Onset)
  /\ Truthy(data.Date_First_Visit)
  /\ Truthy(data.Date_Diagnosis)
  /\ Truthy(data.Date_Treatment_Start)

ValidMessage == <<"Dates are valid">>

SequenceError(i) == <<"Date sequence error", date_names[i], date_names[i + 1]>>

RECURSIVE ValidateFrom(_, _)
ValidateFrom(dates, i) ==
  IF i > Len(dates) - 1
  THEN [ok |-> TRUE, message |-> ValidMessage]
  ELSE IF Truthy(dates[i]) /\ Truthy(dates[i + 1]) /\ Ord(dates[i]) > Ord(dates[i + 1])
       THEN [ok |-> FALSE, message |-> SequenceError(i)]
       ELSE ValidateFrom(dates, i + 1)

\* A validator that also compares the present dates that are not adjacent.
ValidateDates_AllPairs(data) ==
  LET dates == DatesOf(data)
      bad == {p \in (1..4) \X (1..4) :
                /\ p[1] < p[2]
                /\ Truthy(dates[p[1]]) /\ Truthy(dates[p[2]])
                /\ Ord(dates[p[1]]) > Ord(dates[p[2]])}
  IN IF bad = {}
     THEN [ok |-> TRUE, message |-> ValidMessage]
     ELSE [ok |-> FALSE, message |-> <<"Date sequence error">>]

\* A validator whose loop keeps going and reports the last pair out of order.
ValidateDates_LastPair(data) ==
  LET dates == DatesOf(data)
      bad == {i \in 1..3 : Truthy(dates[i]) /\ Truthy(dates[i + 1])
                             /\ Ord(dates[i]) > Ord(dates[i + 1])}
  IN IF bad = {}
     THEN [ok |-> TRUE, message |-> ValidMessage]
     ELSE [ok |-> FALSE,
           message |-> SequenceError(CHOOSE i \in bad : \A j \in bad : j <= i)]

ValidateDates(data) == ValidateFrom(DatesOf(data), 1)

\* calculate_delays with one assignment changed by f, which maps the record
\* before the call and the record the code computes to the record stored.
CalculateDelaysWith(data, f(_, _)) ==
  IF AllDates(data)
  THEN LET symptom == Ord(data.Date_Symptom_Onset)
           first   == Ord(data.Date_First_Visit)
           diag    == Ord(data.Date_Diagnosis)
           treat   == Ord(data.Date_Treatment_Start)
       IN [ ret |-> TRUE,
            data |-> f(data, [data EXCEPT
                       !.Patient_Delay = first - symptom,
                       !.Healthcare_Provider_Related_Delay = diag - first,
                       !.Treatment_Delay = treat - diag,
                       !.Total_Delay = treat - symptom,
                       !.TB_Unit_TU = diag - first,
                       !.Healthcare_Providers = diag - first,
                       !.No_Delay = (treat - symptom = 0)]) ]
  ELSE [ret |-> FALSE, data |-> data]

\* Total delay measured from the first visit instead of the symptom onset.
CalculateDelays_TotalFromVisit(data) ==
  LET f(old, new) == [new EXCEPT !.Total_Delay = new.Total_Delay - new.Patient_Delay]
  IN CalculateDelaysWith(data, f)

\* Provider and treatment delay stored in each other's field.
CalculateDelays_Swapped(data) ==
  LET f(old, new) == [new EXCEPT
                        !.Healthcare_Provider_Related_Delay = new.Treatment_Delay,
                        !.Treatment_Delay = new.Healthcare_Provider_Related_Delay]
  IN CalculateDelaysWith(data, f)

\* Delays kept once computed: a record that has a total is not recomputed.
CalculateDelays_Cached(data) ==
  LET f(old, new) == IF old.Total_Delay > 0 THEN old ELSE new
  IN CalculateDelaysWith(data, f)

\* No_Delay never assigned.
CalculateDelays_NoFlag(data) ==
  LET f(old, new) == [new EXCEPT !.No_Delay = old.No_Delay]
  IN CalculateDelaysWith(data, f)

\* Patient delay added to the stored value instead of assigned.
CalculateDelays_Accumulate(data) ==
  LET f(old, new) == [new EXCEPT !.Patient_Delay = old.Patient_Delay + new.Patient_Delay]
  IN CalculateDelaysWith(data, f)

\* No_Delay taken from the patient delay instead of the total.
CalculateDelays_FlagFromPatientDelay(data) ==
  LET f(old, new) == [new EXCEPT !.No_Delay = (new.Patient_Delay = 0)]
  IN CalculateDelaysWith(data, f)

\* The delay fields put back to their defaults when a date is missing.
CalculateDelays_ResetOnMissing(data) ==
  IF AllDates(data)
  THEN LET f(old, new) == new IN CalculateDelaysWith(data, f)
  ELSE [ ret |-> FALSE,
         data |-> [data EXCEPT
                    !.Patient_Delay = 0,
                    !.Healthcare_Provider_Related_Delay = 0,
                    !.Treatment_Delay = 0,
                    !.Total_Delay = 0,
                    !.TB_Unit_TU = 0,
                    !.Healthcare_Providers = 0,
                    !.No_Delay = FALSE] ]

CalculateDelays(data) ==
  IF AllDates(data)
  THEN LET symptom == Ord(data.Date_Symptom_Onset)
           first   == Ord(data.Date_First_Visit)
           diag    == Ord(data.Date_Diagnosis)
           treat   == Ord(data.Date_Treatment_Start)
       IN [ ret |-> TRUE,
            data |-> [data EXCEPT
                       !.Patient_Delay = first - symptom,
                       !.Healthcare_Provider_Related_Delay = diag - first,
                       !.Treatment_Delay = treat - diag,
                       !.Total_Delay = treat - symptom,
                       !.TB_Unit_TU = diag - first,
                       !.Healthcare_Providers = diag - first,
                       !.No_Delay = (treat - symptom = 0)] ]
  ELSE [ret |-> FALSE, data |-> data]

-----------------------------------------------------------------------------
(* Widgets.  A widget returns what the operator selected in this run; when  *)
(* the operator touches nothing it returns its kept state, and a widget     *)
(* that was not on the page in the previous run starts from its value= /    *)
(* index= argument, which the code takes from the stored record.            *)

NoRadio == <<>>

\* What every widget returns in a run in which the operator changes nothing.
Widgets(data, rad) ==
  [ dates |-> DatesOf(data),
    responses |-> IF rad = NoRadio THEN data.DHLI_Q ELSE rad[1],
    Participant_ID |-> data.Participant_ID,
    Age |-> data.Age,
    Gender |-> data.Gender,
    TB_Type |-> data.TB_Type,
    Data_Verified |-> data.Data_Verified ]

\* What one run shows and which engine calls it made.
Shown(op, section) ==
  [ op |-> op,
    section |-> section,
    validate_called |-> FALSE,
    is_valid |-> FALSE,
    message |-> None,
    calculate_called |-> FALSE,
    calculate_ret |-> FALSE,
    validate_arg |-> None,
    calculate_arg |-> None,
    error |-> None,
    info |-> FALSE,
    delays_kept |-> TRUE,
    level |-> "",
    analysis |-> FALSE,
    notice |-> FALSE,
    export_offered |-> FALSE,
    warning |-> FALSE,
    delays_mark |-> FALSE ]

-----------------------------------------------------------------------------
(* The section renders: each returns the record it leaves and what it shows *)

SectionDemographics(data, w) ==
  [ data |-> [data EXCEPT !.Participant_ID = w.Participant_ID,
                          !.Age = w.Age,
                          !.Gender = w.Gender,
                          !.TB_Type = w.TB_Type],
    ui |-> Shown("render", 0) ]

\* The pathway section with the validation left out.
SectionDigitalPathway_NoValidate(data, w) ==
  LET stored == [data EXCEPT !.Date_Symptom_Onset = w.dates[1],
                             !.Date_First_Visit = w.dates[2],
                             !.Date_Diagnosis = w.dates[3],
                             !.Date_Treatment_Start = w.dates[4]]
      shown == Shown("render", 1)
  IN IF AllDates(stored)
     THEN LET c == CalculateDelays(stored)
          IN [ data |-> c.data,
               ui |-> [shown EXCEPT !.calculate_called = TRUE,
                                    !.calculate_arg = DatesOf(stored),
                                    !.calculate_ret = c.ret] ]
     ELSE [data |-> stored, ui |-> [shown EXCEPT !.info = TRUE]]

\* The pathway section reporting the error and calculating all the same.
SectionDigitalPathway_CalcOnError(data, w) ==
  LET stored == [data EXCEPT !.Date_Symptom_Onset = w.dates[1],
                             !.Date_First_Visit = w.dates[2],
                             !.Date_Diagnosis = w.dates[3],
                             !.Date_Treatment_Start = w.dates[4]]
      shown == Shown("render", 1)
  IN IF AllDates(stored)
     THEN LET v == ValidateDates(stored)
              c == CalculateDelays(stored)
          IN [ data |-> c.data,
               ui |-> [shown EXCEPT !.validate_called = TRUE,
                                    !.validate_arg = DatesOf(stored),
                                    !.is_valid = v.ok,
                                    !.message = v.message,
                                    !.error = IF v.ok THEN None ELSE v.message,
                                    !.calculate_called = TRUE,
                                    !.calculate_arg = DatesOf(stored),
                                    !.calculate_ret = c.ret] ]
     ELSE [data |-> stored, ui |-> [shown EXCEPT !.info = TRUE]]

SectionDigitalPathway(data, w) ==
  LET stored == [data EXCEPT !.Date_Symptom_Onset = w.dates[1],
                             !.Date_First_Visit = w.dates[2],
                             !.Date_Diagnosis = w.dates[3],
                             !.Date_Treatment_Start = w.dates[4]]
      shown == Shown("render", 1)
  IN IF AllDates(stored)
     THEN LET v == ValidateDates(stored)
          IN IF ~v.ok
             THEN [ data |-> stored,
                    ui |-> [shown EXCEPT !.validate_called = TRUE,
                                         !.validate_arg = DatesOf(stored),
                                         !.is_valid = FALSE,
                                         !.message = v.message,
                                         !.error = v.message] ]
             ELSE LET c == CalculateDelays(stored)
                  IN [ data |-> c.data,
                       ui |-> [shown EXCEPT !.validate_called = TRUE,
                                            !.validate_arg = DatesOf(stored),
                                            !.is_valid = TRUE,
                                            !.message = v.message,
                                            !.calculate_called = TRUE,
                                            !.calculate_arg = DatesOf(stored),
                                            !.calculate_ret = c.ret] ]
     ELSE [data |-> stored, ui |-> [shown EXCEPT !.info = TRUE]]

RECURSIVE SumItems(_, _)
SumItems(q, n) == IF n = 0 THEN 0 ELSE q[n] + SumItems(q, n - 1)

\* The interpretation with the comparisons turned round.
DhliLevel_Inverted(total_score) ==
  IF total_score <= 7 THEN "High"
  ELSE IF total_score <= 4 THEN "Moderate"
  ELSE "Low"

\* The "Digital Health Literacy Level" metric of the DHLI section.
DhliLevel(total_score) ==
  IF total_score >= 7 THEN "High"
  ELSE IF total_score >= 4 THEN "Moderate"
  ELSE "Low"

\* The summary's level with a strict comparison at the upper threshold.
VerificationLevel_Strict(total_score) ==
  IF total_score > 7 THEN "High"
  ELSE IF total_score >= 4 THEN "Moderate"
  ELSE "Low"

\* The "Digital Health Literacy Level" line of the verification summary.
VerificationLevel(total_score) ==
  IF total_score >= 7 THEN "High"
  ELSE IF total_score >= 4 THEN "Moderate"
  ELSE "Low"

\* section_dhli with the stored score of an item given by Score(q, response,
\* stored before) and the total by Total(items stored, items stored before).
SectionDhliWith(data, w, Score(_, _, _), Total(_, _)) ==
  LET items == [q \in 1..NumItems |-> Score(q, w.responses[q], data.DHLI_Q[q])]
      total_score == Total(items, data.DHLI_Q)
  IN [ data |-> [data EXCEPT !.DHLI_Q = items, !.DHLI_Total_Score = total_score],
       ui |-> [Shown("render", 2) EXCEPT !.level = DhliLevel(total_score)] ]

\* The total summed before the answers of this run are stored.
SectionDhli_StaleTotal(data, w) ==
  LET Score(q, response, old) == IF q \in reverse_score THEN 1 - response ELSE response
      Total(items, before) == SumItems(before, NumItems)
  IN SectionDhliWith(data, w, Score, Total)

\* The reverse score written as response - 1.
SectionDhli_NegativeReverse(data, w) ==
  LET Score(q, response, old) == IF q \in reverse_score THEN response - 1 ELSE response
      Total(items, before) == SumItems(items, NumItems)
  IN SectionDhliWith(data, w, Score, Total)

\* The reverse-scored item stored like the others.
SectionDhli_NoReverse(data, w) ==
  LET Score(q, response, old) == response
      Total(items, before) == SumItems(items, NumItems)
  IN SectionDhliWith(data, w, Score, Total)

\* The reverse score taken from the stored value instead of the response.
SectionDhli_ReverseStored(data, w) ==
  LET Score(q, response, old) == IF q \in reverse_score THEN 1 - old ELSE response
      Total(items, before) == SumItems(items, NumItems)
  IN SectionDhliWith(data, w, Score, Total)

\* The total taken over items 3 to 10 only.
SectionDhli_FormalTotal(data, w) ==
  LET Score(q, response, old) == IF q \in reverse_score THEN 1 - response ELSE response
      Total(items, before) == SumItems(items, NumItems) - items[1] - items[2]
  IN SectionDhliWith(data, w, Score, Total)

SectionDhli(data, w) ==
  LET items == [q \in 1..NumItems |->
                  IF q \in reverse_score THEN 1 - w.responses[q] ELSE w.responses[q]]
      total_score == SumItems(items, NumItems)
  IN [ data |-> [data EXCEPT !.DHLI_Q = items,
                             !.DHLI_Total_Score = total_score],
       ui |-> [Shown("render", 2) EXCEPT !.level = DhliLevel(total_score)] ]

\* The "Current Patient" tab: the delay analysis, or the notice to complete
\* Section 2.
SectionVisualization(data, w) ==
  [ data |-> data,
    ui |-> [Shown("render", 3) EXCEPT !.analysis = (data.Total_Delay > 0),
                                      !.notice = ~(data.Total_Delay > 0)] ]

\* Python truthiness of an essential field of the record: the number 0 and
\* the string '' are falsy.
FieldSet(data, field) == IF field = "Age" THEN data[field] # 0 ELSE data[field] # ""

\* section_verification with the checkbox value v stored and the export
\* button offered when Offered(record).
SectionVerificationWith(data, v, Offered(_)) ==
  LET stored == [data EXCEPT !.Data_Verified = v]
  IN [ data |-> stored,
       ui |-> [Shown("render", 4) EXCEPT
                 !.level = VerificationLevel(data.DHLI_Total_Score),
                 !.export_offered = Offered(stored),
                 !.warning = ~Offered(stored)] ]

\* The export button offered for verified records only.
SectionVerification_VerifiedOnly(data, w) ==
  LET Offered(d) == /\ \A f \in {"Participant_ID", "Age", "Gender", "TB_Type"} : FieldSet(d, f)
                    /\ d.Data_Verified
  IN SectionVerificationWith(data, w.Data_Verified, Offered)

\* The export button offered once the participant has an ID.
SectionVerification_IdOnly(data, w) ==
  LET Offered(d) == FieldSet(d, "Participant_ID")
  IN SectionVerificationWith(data, w.Data_Verified, Offered)

SectionVerification(data, w) ==
  LET stored == [data EXCEPT !.Data_Verified = w.Data_Verified]
      essential_fields == {"Participant_ID", "Age", "Gender", "TB_Type"}
      missing_fields == {field \in essential_fields : ~FieldSet(stored, field)}
  IN [ data |-> stored,
       ui |-> [Shown("render", 4) EXCEPT
                 !.level = VerificationLevel(data.DHLI_Total_Score),
                 !.export_offered = (missing_fields = {}),
                 !.warning = (missing_fields # {})] ]

\* sections[current_section][1]()
RenderSection(section, data, w) ==
  CASE section = 0 -> SectionDemographics(data, w)
    [] section = 1 -> SectionDigitalPathway(data, w)
    [] section = 2 -> SectionDhli(data, w)
    [] section = 3 -> SectionVisualization(data, w)
    [] OTHER -> SectionVerification(data, w)

\* The radio state a run leaves: kept only for widgets that were on the page.
RadioAfter(section, w) == IF section = 2 THEN <<w.responses>> ELSE NoRadio

-----------------------------------------------------------------------------
(* main(): one run of the script, and the rerun a handler starts *)

\* The seven delay fields of a record.
DelayFields(data) ==
  << data.Patient_Delay, data.Healthcare_Provider_Related_Delay, data.Treatment_Delay,
     data.Total_Delay, data.TB_Unit_TU, data.Healthcare_Providers, data.No_Delay >>

\* One run of main() up to the buttons below the section: the session state is
\* initialised where keys are missing and the current section is rendered with
\* the widget values w.  delays_kept tells whether the render left the delay
\* fields as it found them.
RunWith(keys, data, section, w) ==
  LET s == InitializeSessionState(keys, data, section)
      r == RenderSection(s.section, s.data, w)
  IN [ data |-> r.data,
       section |-> s.section,
       radio |-> RadioAfter(s.section, w),
       ui |-> [r.ui EXCEPT !.delays_kept = (DelayFields(r.data) = DelayFields(s.data)),
                           !.delays_mark = (s.data.Total_Delay > 0)] ]

SessionKeys == {"participant_data", "current_section"}

\* A run caused by a widget or a button: the widgets on the page return w.
Run(data, section, w) == RunWith(SessionKeys, data, section, w)

\* The run st.rerun() starts after a handler changed the session state: the
\* widgets of the section it shows were not on the page, so they start fresh.
Rerun(keys, data, section) ==
  LET s == InitializeSessionState(keys, data, section)
  IN RunWith(keys, data, section, Widgets(s.data, NoRadio))

\* The state a step leaves: that of its last run r; ran lists its runs.
Become(r, ran) ==
  /\ participant_data' = r.data
  /\ current_section' = r.section
  /\ radio' = r.radio
  /\ ui' = ran
  /\ UNCHANGED stores

\* The operator picks (or clears) one date in the pathway section: a changed
\* widget starts a run at once, so one run sees one changed widget.
EditDate(i, d) ==
  /\ current_section = 1
  /\ LET r == Run(participant_data, current_section,
                  [Widgets(participant_data, radio) EXCEPT !.dates[i] = d])
     IN Become(r, <<r.ui>>)

\* The operator selects answer v of item q in the DHLI section.
EditAnswer(q, v) ==
  /\ current_section = 2
  /\ LET r == Run(participant_data, current_section,
                  [Widgets(participant_data, radio) EXCEPT !.responses[q] = v])
     IN Become(r, <<r.ui>>)

\* The values the operator gives an essential field: unset, or one set value.
FieldValues(f) ==
  CASE f = "Participant_ID" -> {"", "TB0001"}
    [] f = "Age" -> {0, 34}
    [] f = "Gender" -> {"", "Female"}
    [] f = "TB_Type" -> {"", "Pulmonary"}

\* The operator fills in (or empties) one essential field in the first section.
EditField(f, v) ==
  /\ current_section = 0
  /\ LET r == Run(participant_data, current_section,
                  [Widgets(participant_data, radio) EXCEPT ![f] = v])
     IN Become(r, <<r.ui>>)

\* The operator ticks or unticks "Data Verified" in the verification section.
ToggleVerified ==
  /\ current_section = NumSections - 1
  /\ LET r == Run(participant_data, current_section,
                  [Widgets(participant_data, radio) EXCEPT !.Data_Verified = ~@])
     IN Become(r, <<r.ui>>)

\* The Previous button.
Previous ==
  /\ ~(current_section = 0)
  /\ LET r == Run(participant_data, current_section, Widgets(participant_data, radio))
         m == IF r.section - 1 > 0 THEN r.section - 1 ELSE 0
         n == Rerun(SessionKeys, r.data, m)
     IN Become(n, <<r.ui, n.ui>>)

\* The Next button.
NextSection ==
  /\ ~(current_section = NumSections - 1)
  /\ LET r == Run(participant_data, current_section, Widgets(participant_data, radio))
         m == IF r.section + 1 < NumSections - 1 THEN r.section + 1 ELSE NumSections - 1
         n == Rerun(SessionKeys, r.data, m)
     IN Become(n, <<r.ui, n.ui>>)

\* Reset Session deleting the section index and keeping the record.
ResetSession_KeepRecord ==
  /\ LET r == Run(participant_data, current_section, Widgets(participant_data, radio))
         n == Rerun({"participant_data"}, r.data, r.section)
     IN Become(n, <<r.ui, n.ui>>)

\* The Reset Session button: every key is deleted, then the script reruns.
ResetSession ==
  /\ LET r == Run(participant_data, current_section, Widgets(participant_data, radio))
         n == Rerun({}, r.data, r.section)
     IN Become(n, <<r.ui, n.ui>>)

\* The first run of a session: no key exists yet.
Init ==
  LET r == Rerun({}, DefaultRecord, 0)
  IN /\ participant_data = r.data
     /\ current_section = r.section
     /\ radio = r.radio
     /\ ui = <<r.ui>>
     /\ stores = 0

Next ==
  \/ \E i \in 1..4, d \in DateOrNone : EditDate(i, d)
  \/ Previous
  \/ NextSection
  \/ ResetSession

Spec == Init /\ [][Next]_vars

\* The session of an operator who answers the questionnaire and enters no date.
NextDhli ==
  \/ \E q \in 1..NumItems, v \in {0, 1} : EditAnswer(q, v)
  \/ Previous
  \/ NextSection
  \/ ResetSession

SpecDhli == Init /\ [][NextDhli]_vars

\* The session of an operator who fills in the essential fields, enters the
\* first two milestone dates and verifies the record.
NextForm ==
  \/ \E f \in {"Participant_ID", "Age", "Gender", "TB_Type"} :
       \E v \in FieldValues(f) : EditField(f, v)
  \/ \E i \in 1..2, d \in DateOrNone : EditDate(i, d)
  \/ ToggleVerified
  \/ Previous
  \/ NextSection
  \/ ResetSession

SpecForm == Init /\ [][NextForm]_vars

-----------------------------------------------------------------------------
(* The readers of the delay fields *)

\* The "Calculated Delays" lines of the verification summary.
VerificationSummaryDelays(data) ==
  << data.Patient_Delay, data.Healthcare_Provider_Related_Delay, data.Treatment_Delay,
     data.Total_Delay, data.TB_Unit_TU, data.Healthcare_Providers, data.No_Delay >>

\* The "Calculated delays" columns of the exported row.
CreateExportDataframe(data) ==
  [ Patient_Delay |-> data.Patient_Delay,
    Healthcare_Provider_Related_Delay |-> data.Healthcare_Provider_Related_Delay,
    Treatment_Delay |-> data.Treatment_Delay,
    Total_Delay |-> data.Total_Delay,
    TB_Unit_TU |-> data.TB_Unit_TU,
    Healthcare_Providers |-> data.Healthcare_Providers,
    No_Delay |-> data.No_Delay ]

-----------------------------------------------------------------------------
(* The engine driven directly: the record holds any four optional dates and *)
(* a caller stores a date, calls validate_dates or calls calculate_delays.  *)

InitEngine ==
  /\ \E d1, d2, d3, d4 \in EngineDateOrNone :
        participant_data = [DefaultRecord EXCEPT !.Date_Symptom_Onset = d1,
                                                 !.Date_First_Visit = d2,
                                                 !.Date_Diagnosis = d3,
                                                 !.Date_Treatment_Start = d4]
  /\ current_section = 1
  /\ radio = NoRadio
  /\ ui = <<Shown("none", 1)>>
  /\ stores = 0

\* participant_data['Date_...'] = <a date or None>
StoreDate(i, d) ==
  /\ stores < MaxStores
  /\ stores' = stores + 1
  /\ participant_data' =
       [ participant_data EXCEPT
           !.Date_Symptom_Onset = IF i = 1 THEN d ELSE @,
           !.Date_First_Visit = IF i = 2 THEN d ELSE @,
           !.Date_Diagnosis = IF i = 3 THEN d ELSE @,
           !.Date_Treatment_Start = IF i = 4 THEN d ELSE @ ]
  /\ ui' = <<Shown("store", current_section)>>
  /\ UNCHANGED <<current_section, radio>>

\* validate_dates clearing the treatment date of a sequence it rejects.
CallValidateDates_Clearing ==
  /\ LET v == ValidateDates(participant_data)
     IN /\ ui' = << [Shown("validate_dates", current_section) EXCEPT
                       !.validate_called = TRUE,
                       !.validate_arg = DatesOf(participant_data),
                       !.is_valid = v.ok,
                       !.message = v.message] >>
        /\ participant_data' =
             IF v.ok THEN participant_data
             ELSE [participant_data EXCEPT !.Date_Treatment_Start = None]
  /\ UNCHANGED <<current_section, radio, stores>>

CallValidateDates ==
  /\ LET v == ValidateDates(participant_data)
     IN ui' = << [Shown("validate_dates", current_section) EXCEPT
                    !.validate_called = TRUE,
                    !.validate_arg = DatesOf(participant_data),
                    !.is_valid = v.ok,
                    !.message = v.message] >>
  /\ UNCHANGED <<participant_data, current_section, radio, stores>>

CallCalculateDelays ==
  /\ LET c == CalculateDelays(participant_data)
     IN /\ participant_data' = c.data
        /\ ui' = << [Shown("calculate_delays", current_section) EXCEPT
                       !.calculate_called = TRUE,
                       !.calculate_arg = DatesOf(participant_data),
                       !.calculate_ret = c.ret,
                       !.delays_kept =
                          (DelayFields(c.data) = DelayFields(participant_data))] >>
  /\ UNCHANGED <<current_section, radio, stores>>

NextEngine ==
  \/ \E i \in 1..4, d \in EngineDateOrNone : StoreDate(i, d)
  \/ CallValidateDates
  \/ CallCalculateDelays

SpecEngine == InitEngine /\ [][NextEngine]_vars

-----------------------------------------------------------------------------
(* The scoring lines of section_dhli, run on a raw answer of any value *)

RawAnswers == (0 - MaxExcess)..(1 + MaxExcess)

InitScoring ==
  /\ participant_data = DefaultRecord
  /\ current_section = 2
  /\ radio = NoRadio
  /\ ui = <<Shown("none", 2)>>
  /\ stores = 0

\* response = raw for item q; the other items answer as their radios stand.
RecordResponse(q, raw) ==
  /\ stores < MaxResponses
  /\ stores' = stores + 1
  /\ LET w == [Widgets(participant_data, radio) EXCEPT !.responses[q] = raw]
         r == SectionDhli(participant_data, w)
     IN /\ participant_data' = r.data
        /\ radio' = RadioAfter(2, w)
        /\ ui' = <<[r.ui EXCEPT !.op = "record_response"]>>
  /\ UNCHANGED current_section

NextScoring == \E q \in 1..NumItems, raw \in RawAnswers : RecordResponse(q, raw)

SpecScoring == InitScoring /\ [][NextScoring]_vars

-----------------------------------------------------------------------------
(* What the claims speak of, stated from the record and the dates alone *)

dates == DatesOf(participant_data)

\* The last run of the last step.
last == ui[Len(ui)]

\* Adjacent pairs with both dates present and the earlier strictly after the later.
OutOfOrderPairs ==
  {i \in 1..3 : dates[i] # None /\ dates[i + 1] # None /\ dates[i][1] > dates[i + 1][1]}

Complete == \A i \in 1..4 : dates[i] # None

\* The delay fields the stored dates determine.
DerivedFromDates ==
  << dates[2][1] - dates[1][1], dates[3][1] - dates[2][1], dates[4][1] - dates[3][1],
     dates[4][1] - dates[1][1], dates[3][1] - dates[2][1], dates[3][1] - dates[2][1],
     dates[4][1] = dates[1][1] >>

WithDates(d1, d2, d3, d4) ==
  [DefaultRecord EXCEPT !.Date_Symptom_Onset = <<d1>>, !.Date_First_Visit = <<d2>>,
                        !.Date_Diagnosis = <<d3>>, !.Date_Treatment_Start = <<d4>>]

-----------------------------------------------------------------------------
(* Claims, checked under SpecEngine (the engine called directly) *)

\* C1: whenever every adjacent pair of present dates is non-decreasing,
\* validate_dates returns success with "Dates are valid"; pairs with a missing
\* endpoint are skipped, whatever the order of present non-adjacent dates.
C1_ValidSequenceAccepted ==
  (last.op = "validate_dates" /\ OutOfOrderPairs = {})
    => (last.is_valid /\ last.message = <<"Dates are valid">>)

\* validate_dates succeeded with onset after diagnosis and the first visit missing.
C1_Witness ==
  /\ last.op = "validate_dates"
  /\ last.is_valid
  /\ dates[1] # None /\ dates[2] = None /\ dates[3] # None
  /\ dates[1][1] > dates[3][1]

\* C2: whenever some adjacent pair of present dates has the earlier milestone
\* strictly after the later, validate_dates fails and its message names the
\* lowest-index such pair by its two milestone names.
C2_OutOfOrderRejected ==
  (last.op = "validate_dates" /\ OutOfOrderPairs # {})
    => LET k == CHOOSE i \in OutOfOrderPairs : \A j \in OutOfOrderPairs : i <= j
       IN /\ ~last.is_valid
          /\ last.message = <<"Date sequence error", date_names[k], date_names[k + 1]>>

\* validate_dates failed on a record with two pairs out of order and named the first.
C2_Witness ==
  /\ last.op = "validate_dates"
  /\ ~last.is_valid
  /\ Cardinality(OutOfOrderPairs) >= 2
  /\ last.message = <<"Date sequence error", "First Visit", "Diagnosis">>

\* C4: on every complete set of four dates calculate_delays returns True and
\* stores the three gaps and the span as day differences (day offsets 0, 9, 19, 24
\* give 9, 10, 5, 24 and No_Delay false).
C4_DelaysAreDayDifferences ==
  /\ (last.op = "calculate_delays" /\ Complete)
       => /\ last.calculate_ret
          /\ participant_data.Patient_Delay = dates[2][1] - dates[1][1]
          /\ participant_data.Healthcare_Provider_Related_Delay = dates[3][1] - dates[2][1]
          /\ participant_data.Treatment_Delay = dates[4][1] - dates[3][1]
          /\ participant_data.Total_Delay = dates[4][1] - dates[1][1]
  /\ LET c == CalculateDelays(WithDates(0, 9, 19, 24))
     IN /\ c.ret
        /\ DelayFields(c.data) = <<9, 10, 5, 24, 10, 10, FALSE>>

\* calculate_delays has run on complete dates whose three gaps all differ.
C4_Witness ==
  /\ last.op = "calculate_delays"
  /\ Complete
  /\ last.calculate_ret
  /\ participant_data.Patient_Delay = 1
  /\ participant_data.Healthcare_Provider_Related_Delay = 2
  /\ participant_data.Treatment_Delay = 0

\* C9: right after calculate_delays has run, running it again on the same
\* stored dates returns the same result and leaves the record as it is.
C9_CalculateIdempotent ==
  last.op = "calculate_delays"
    => CalculateDelays(participant_data)
         = [ret |-> last.calculate_ret, data |-> participant_data]

\* calculate_delays has run on a record that held the delays of earlier dates.
C9_Witness ==
  /\ last.op = "calculate_delays"
  /\ last.calculate_ret
  /\ stores > 0
  /\ participant_data.Patient_Delay > 0

\* C11: a call of calculate_delays on a record with at least one of the four
\* dates absent returns False and leaves the seven delay fields (and the rest
\* of the record) as they were before the call.
C11_MissingDateLeavesDelays ==
  [][ (ui'[Len(ui')].op = "calculate_delays" /\ ~Complete)
        => /\ ~ui'[Len(ui')].calculate_ret
           /\ DelayFields(participant_data') = DelayFields(participant_data)
           /\ participant_data' = participant_data ]_vars

\* calculate_delays has returned False on a record with a missing date that
\* carries delays computed earlier.
C11_Witness ==
  /\ last.op = "calculate_delays"
  /\ ~Complete
  /\ ~last.calculate_ret
  /\ last.delays_kept
  /\ participant_data.Total_Delay > 0
  /\ participant_data.Patient_Delay > 0

\* C22: validate_dates has no side effects: a call leaves every field of the
\* participant record unchanged, and calling it again on the same dates
\* returns the result the call returned.
C22_ValidateDatesPure ==
  [][ ui'[Len(ui')].op = "validate_dates"
        => /\ participant_data' = participant_data
           /\ ValidateDates(participant_data').ok = ui'[Len(ui')].is_valid
           /\ ValidateDates(participant_data').message = ui'[Len(ui')].message ]_vars

\* validate_dates has rejected a record that carries calculated delays.
C22_Witness ==
  /\ last.op = "validate_dates"
  /\ ~last.is_valid
  /\ last.message = SequenceError(3)
  /\ participant_data.Total_Delay > 0
  /\ stores > 0

\* C24: for every complete date sequence that passes validate_dates, the
\* computed No_Delay flag is true if and only if all four dates are equal,
\* and then all four delays are 0.
C24_NoDelayIffDatesEqual ==
  (last.op = "calculate_delays" /\ last.calculate_ret /\ ValidateDates(participant_data).ok)
    => /\ participant_data.No_Delay
            <=> (\A i \in 1..4 : dates[i] = dates[1])
       /\ participant_data.No_Delay
            => /\ participant_data.Patient_Delay = 0
               /\ participant_data.Healthcare_Provider_Related_Delay = 0
               /\ participant_data.Treatment_Delay = 0
               /\ participant_data.Total_Delay = 0

\* calculate_delays has set No_Delay for four equal dates that replaced a
\* sequence with a delay.
C24_Witness ==
  /\ last.op = "calculate_delays"
  /\ last.calculate_ret
  /\ ~last.delays_kept
  /\ stores > 0
  /\ dates = <<(<<2>>), (<<2>>), (<<2>>), (<<2>>)>>
  /\ participant_data.No_Delay

-----------------------------------------------------------------------------
(* Claims, checked under Spec (the session) *)

\* C3: in every reachable state of the record Total_Delay equals
\* Patient_Delay + Healthcare_Provider_Related_Delay + Treatment_Delay.
C3_TotalIsSum ==
  participant_data.Total_Delay
    = participant_data.Patient_Delay
      + participant_data.Healthcare_Provider_Related_Delay
      + participant_data.Treatment_Delay

\* The pathway section has calculated a total made of two positive gaps.
C3_Witness ==
  /\ last.calculate_called
  /\ participant_data.Patient_Delay > 0
  /\ participant_data.Healthcare_Provider_Related_Delay = 0
  /\ participant_data.Treatment_Delay > 0
  /\ participant_data.Total_Delay = 2

\* C5: in every reachable state the four stored delays are non-negative.
C5_DelaysNonNegative ==
  /\ participant_data.Patient_Delay >= 0
  /\ participant_data.Healthcare_Provider_Related_Delay >= 0
  /\ participant_data.Treatment_Delay >= 0
  /\ participant_data.Total_Delay >= 0

\* The pathway section refused dates out of order while the record holds delays.
C5_Witness ==
  /\ last.section = 1
  /\ last.error # None
  /\ participant_data.Total_Delay > 0

\* C6: in every reachable state (so at the end of every pathway render) in which
\* the four stored dates are present and in order, the seven stored delay fields
\* are those the stored dates determine, whatever the record held before.
C6_DelaysFollowStoredDates ==
  (Complete /\ OutOfOrderPairs = {}) => DelayFields(participant_data) = DerivedFromDates

\* The pathway section calculated delays for complete dates in order.
C6_Witness ==
  /\ last.section = 1
  /\ last.calculate_called
  /\ Complete /\ OutOfOrderPairs = {}
  /\ participant_data.Healthcare_Provider_Related_Delay = 1
  /\ participant_data.Treatment_Delay = 1

\* C7 as claimed: whenever a stored date is missing or the stored dates are out
\* of order, the delay fields are at their unset defaults.
C7_DelaysWithheld ==
  (~Complete \/ OutOfOrderPairs # {})
    => /\ VerificationSummaryDelays(participant_data) = <<0, 0, 0, 0, 0, 0, FALSE>>
       /\ CreateExportDataframe(participant_data)
            = [ Patient_Delay |-> 0, Healthcare_Provider_Related_Delay |-> 0,
                Treatment_Delay |-> 0, Total_Delay |-> 0, TB_Unit_TU |-> 0,
                Healthcare_Providers |-> 0, No_Delay |-> FALSE ]

\* C8 as claimed: in every reachable state No_Delay is true exactly when
\* Total_Delay is 0.
C8_NoDelayIffZeroTotal ==
  participant_data.No_Delay <=> (participant_data.Total_Delay = 0)

\* C8, amended: in every reachable state whose delay fields are not all still at
\* their initial defaults, and in every state left by a run that called
\* calculate_delays, No_Delay is true exactly when Total_Delay is 0.
C8_NoDelayIffZeroTotalOnceCalculated ==
  (last.calculate_called \/ DelayFields(participant_data) # DelayFields(DefaultRecord))
    => (participant_data.No_Delay <=> (participant_data.Total_Delay = 0))

\* The pathway section calculated a zero total and set No_Delay.
C8_Witness ==
  /\ last.calculate_called
  /\ participant_data.Total_Delay = 0
  /\ participant_data.No_Delay

\* C10: every run calls calculate_delays only after validate_dates succeeded on
\* the same four present dates, and a run in which validate_dates fails shows the
\* error, does not call calculate_delays and leaves every delay field as it was.
C10_CallerHonoursPrecondition ==
  \A k \in 1..Len(ui) :
    LET run == ui[k]
    IN /\ run.calculate_called
            => /\ run.validate_called /\ run.is_valid
               /\ run.validate_arg = run.calculate_arg
               /\ \A i \in 1..4 : run.calculate_arg[i] # None
               /\ \A i \in 1..3 : run.calculate_arg[i][1] <= run.calculate_arg[i + 1][1]
       /\ (run.validate_called /\ ~run.is_valid)
            => /\ run.error = run.message
               /\ run.error # None
               /\ ~run.calculate_called
               /\ run.delays_kept

\* A render refused dates out of order on a record that has no delays yet.
C10_Witness ==
  /\ last.section = 1
  /\ last.validate_called
  /\ ~last.is_valid
  /\ last.error = <<"Date sequence error", "Symptom Onset", "First Visit">>
  /\ participant_data.Total_Delay = 0

-----------------------------------------------------------------------------
(* Claims, checked under SpecDhli (the questionnaire) *)

\* The answers returned by the radios of the DHLI section in the last run.
responses == radio[1]

\* C12: in every reachable state DHLI_Total_Score equals the sum of the ten
\* stored item values DHLI_Q1..DHLI_Q10.
C12_TotalIsSumOfItems ==
  participant_data.DHLI_Total_Score
    = participant_data.DHLI_Q[1] + participant_data.DHLI_Q[2]
      + participant_data.DHLI_Q[3] + participant_data.DHLI_Q[4]
      + participant_data.DHLI_Q[5] + participant_data.DHLI_Q[6]
      + participant_data.DHLI_Q[7] + participant_data.DHLI_Q[8]
      + participant_data.DHLI_Q[9] + participant_data.DHLI_Q[10]

\* The operator has answered, and a later answer has lowered the total again.
C12_Witness ==
  /\ radio # NoRadio
  /\ participant_data.DHLI_Total_Score = 3
  /\ participant_data.DHLI_Q[2] = 1
  /\ participant_data.DHLI_Q[5] = 1
  /\ participant_data.DHLI_Q[9] = 0
  /\ responses[9] = 1

\* C13: every stored item value is 0 or 1 and the stored total lies in 0..10.
C13_ItemsBinaryTotalInRange ==
  /\ \A q \in 1..NumItems : participant_data.DHLI_Q[q] \in {0, 1}
  /\ participant_data.DHLI_Total_Score \in 0..NumItems

\* The upper end of the range has been stored by a render of the section:
\* 1 selected for every item but the reverse-scored one.
C13_Witness ==
  /\ radio # NoRadio
  /\ participant_data.DHLI_Total_Score = NumItems
  /\ responses[9] = 0
  /\ \A q \in 1..NumItems : participant_data.DHLI_Q[q] = 1

\* C14: after a render of the DHLI section the stored value of the
\* reverse-scored item 9 is 1 minus the answer selected in that render, and
\* the stored value of each other item is the answer selected.
C14_ReverseScoredItem ==
  radio # NoRadio
    => /\ participant_data.DHLI_Q[9] = 1 - responses[9]
       /\ \A q \in (1..NumItems) \ {9} : participant_data.DHLI_Q[q] = responses[q]

\* The operator has selected 1 for item 9 and for another item.
C14_Witness ==
  /\ radio # NoRadio
  /\ last.op = "render" /\ last.section = 2
  /\ responses[9] = 1 /\ participant_data.DHLI_Q[9] = 0
  /\ responses[4] = 1 /\ participant_data.DHLI_Q[4] = 1
  /\ responses[10] = 0 /\ participant_data.DHLI_Q[10] = 0

\* The band of a total as the interpretation table states it.
Band(t) ==
  CASE t \in 7..10 -> "High"
    [] t \in 4..6 -> "Moderate"
    [] t \in 0..3 -> "Low"

Rank(level) == CASE level = "Low" -> 1 [] level = "Moderate" -> 2 [] level = "High" -> 3

\* C16: the classification is monotonic: against the total the DHLI section
\* has just shown, no lower total is classified into a higher band and no
\* higher total into a lower band (Low < Moderate < High).
C16_BandMonotonic ==
  (last.section = 2 /\ last.op = "render")
    => \A t \in 0..NumItems :
         /\ t <= participant_data.DHLI_Total_Score
              => Rank(DhliLevel(t)) <= Rank(last.level)
         /\ t >= participant_data.DHLI_Total_Score
              => Rank(DhliLevel(t)) >= Rank(last.level)

\* The DHLI section shows Moderate, with lower and higher bands on both sides.
C16_Witness ==
  /\ last.section = 2 /\ last.op = "render"
  /\ participant_data.DHLI_Total_Score = 5
  /\ last.level = "Moderate"

\* C17: a run of the DHLI section in which the selection of exactly one item
\* differs from the run before leaves the stored values of the other nine
\* items unchanged.
C17_OtherItemsUnchanged ==
  [][ (radio # NoRadio /\ radio' # NoRadio)
        => \A q \in 1..NumItems :
             (\A p \in (1..NumItems) \ {q} : radio'[1][p] = radio[1][p])
               => \A p \in (1..NumItems) \ {q} :
                    participant_data'.DHLI_Q[p] = participant_data.DHLI_Q[p] ]_vars

\* The operator has changed the selection of item 3 while items 9 and 10
\* carry stored values set by earlier answers.
C17_Witness ==
  /\ radio # NoRadio
  /\ last.op = "render" /\ last.section = 2
  /\ responses[3] = 1 /\ participant_data.DHLI_Q[3] = 1
  /\ responses[9] = 1 /\ participant_data.DHLI_Q[9] = 0
  /\ responses[10] = 1 /\ participant_data.DHLI_Q[10] = 1

\* The stored items differ before and after the step in item q and in no other.
OnlyItemChanged(q) ==
  /\ participant_data'.DHLI_Q[q] # participant_data.DHLI_Q[q]
  /\ \A p \in (1..NumItems) \ {q} : participant_data'.DHLI_Q[p] = participant_data.DHLI_Q[p]

C20_FreshRenderTotalIsDefaultSum ==
  [][ (participant_data = DefaultRecord /\ radio = NoRadio /\ current_section' = 2)
        => participant_data'.DHLI_Total_Score
             = SumItems(DefaultRecord.DHLI_Q, NumItems) ]_vars

\* C23: re-rendering the DHLI section is idempotent on the stored answers:
\* when the operator returns to the section after a visit (each radio
\* initialised from the stored item value) and changes no answer, the ten
\* stored items and DHLI_Total_Score are what they were before the return.
C23_ReturnKeepsAnswers ==
  [][ ( /\ current_section # 2
        /\ current_section' = 2
        /\ participant_data.DHLI_Q # DefaultRecord.DHLI_Q )
        => /\ participant_data'.DHLI_Q = participant_data.DHLI_Q
           /\ participant_data'.DHLI_Total_Score = participant_data.DHLI_Total_Score ]_vars

-----------------------------------------------------------------------------
(* Claims, checked under SpecScoring (the scoring lines) *)

-----------------------------------------------------------------------------
(* Claims about the session as a whole, checked under Spec *)

\* C21: from any reachable state, after the Reset Session action and the run
\* that follows it the participant record equals the default initial record
\* and the current section is 0; nothing of the previous record survives,
\* the widgets of the page included.
C21_ResetDiscardsRecord ==
  [][ ResetSession
        => /\ participant_data' = DefaultRecord
           /\ current_section' = 0
           /\ radio' = NoRadio ]_vars

\* Reset Session was pressed in the pathway section on a record with
\* calculated delays, and the default record is back at section 0.
C21_Witness ==
  /\ Len(ui) = 2
  /\ ui[1].section = 1 /\ ui[1].calculate_called /\ ui[1].calculate_ret
  /\ ui[2].section = 0
  /\ participant_data = DefaultRecord
  /\ current_section = 0

-----------------------------------------------------------------------------
(* Claims about navigation and what the sections show, checked under Spec *)

\* C25: the current section index is always within 0..4; Previous decreases
\* it by exactly one and is unavailable at section 0, Next increases it by
\* exactly one and is unavailable at section 4, and neither changes any
\* field of the participant record.
C25_NavigationKeepsRecord ==
  [][ /\ current_section' \in 0..4
      /\ Previous => /\ current_section # 0
                     /\ current_section' = current_section - 1
                     /\ participant_data' = participant_data
      /\ NextSection => /\ current_section # 4
                        /\ current_section' = current_section + 1
                        /\ participant_data' = participant_data ]_vars

\* Delays have been calculated for the record: calculate_delays is the only
\* writer of the delay fields, and each calculation of the session leaves a
\* positive total or No_Delay set.
Calculated == DelayFields(participant_data) # DelayFields(DefaultRecord)

\* C27: the Current Patient delay analysis and the sidebar 'Delays' mark are
\* shown exactly when delays have been calculated for the record; otherwise
\* the 'Please complete Section 2' notice is shown.
C27_AnalysisIffCalculated ==
  (last.section = 3 /\ last.op = "render")
    => /\ last.analysis <=> Calculated
       /\ last.notice <=> ~Calculated
       /\ last.delays_mark <=> Calculated

-----------------------------------------------------------------------------
(* Claims, checked under SpecForm (essential fields and verification) *)

\* The four essential fields of the record are all set.
EssentialsSet ==
  /\ participant_data.Participant_ID # ""
  /\ participant_data.Age # 0
  /\ participant_data.Gender # ""
  /\ participant_data.TB_Type # ""

\* C26: the export action is offered in the verification section if and only
\* if Participant_ID, Age, Gender and TB_Type are all set (non-empty, Age
\* not 0), whatever Data_Verified is and whether or not the stored dates pass
\* validate_dates; otherwise the warning is shown in its place.
C26_ExportGate ==
  (last.section = 4 /\ last.op = "render")
    => /\ last.export_offered <=> EssentialsSet
       /\ last.warning <=> ~EssentialsSet

\* Export is offered for a record that is not verified and whose dates
\* validate_dates rejects.
C26_Witness ==
  /\ last.section = 4 /\ last.op = "render"
  /\ last.export_offered
  /\ EssentialsSet
  /\ ~participant_data.Data_Verified
  /\ ~ValidateDates(participant_data).ok
====
